---- MODULE Spec2Model ----
(***************************************************************************)
(* State-machine model of la_window.h (Win32 implementation): the window   *)
(* procedure __law_proc and its wrappers, the per-window law_Data          *)
(* lifetime, the lazy class registration in law_create, and the message    *)
(* pump law_update / law_exit.                                             *)
(*                                                                         *)
(* The whole program state is carried in one record (the "world") that     *)
(* the operators below transform exactly as the C functions do; each       *)
(* action of Next is one call of a public function made by the             *)
(* application, or one notification queued by the native backend.          *)
(***************************************************************************)
EXTENDS Integers, Sequences, FiniteSets, TLC

\* ---------------------------------------------------------------- bounds
MaxWindows == 2     \* native window handles the backend can hand out
MaxQueue == 2       \* pending notifications in the thread's message queue
MaxCreates == 2      \* calls of law_create in one process
MaxErrorCode == 60   \* largest error_code given to law_getErrorMsg
MaxPending == 1      \* notifications pending in the dispatch scenario
MaxHandlers == 1     \* slots the application fills in the dispatch scenario
MaxPosts == 3        \* notifications queued in the ordering scenario
MaxMaximize == 4     \* maximize notifications in the run-loop scenario

\* ------------------------------------------------------------- constants
NULL == 0                                   \* null law_Window / law_Data*
NULLFN == "NULL"                            \* null function pointer
UNINIT == "uninit"                          \* indeterminate function pointer
UNINIT_INT == 0 - 1                         \* indeterminate int / void*

LAW_ERROR_NONE == 0
LAW_ERROR_CREATE_WINDOW == 1
LAW_ERROR_ALLOCATE_MEMORY_FOR_PARAMS == 2
LAW_ERROR_REGISTER_WINDOW_CLASS == 3

LAW_MOUSE_LEFT == 1
LAW_MOUSE_RIGHT == 2
LAW_MOUSE_MIDDLE == 3
LAW_MOUSE_X1 == 4
LAW_MOUSE_X2 == 5

SC_MINIMIZE == 61472                        \* 0xF020
SC_MAXIMIZE == 61488                        \* 0xF030

Handles == 1..MaxWindows
Ptrs == 1..MaxWindows

\* The callback slots of law_Events, in declaration order.
WindowSlots ==
  {"destroy", "close", "resize", "move", "focus", "unfocus", "redraw",
   "minimize", "maximize", "show", "hide", "file_drop", "touch"}
KeySlots == {"key_down", "key_up"}
MouseSlots == {"mouse_move", "mouse_down", "mouse_up", "mouse_wheel"}
PenSlots == {"pen"}
Slots == WindowSlots \cup KeySlots \cup MouseSlots \cup PenSlots

Titles == {"Window 1", "Maximized Window", "Maximized(another) Window"}

\* ----------------------------------------------------------------- state
VARIABLES
  NDEBUG,            \* build flag: "defined" when assert() is compiled out,
                     \* "undetermined" until the first assert(0) is reached
  aborted,           \* the process was ended by abort() or by a crash
  law_error,         \* unsigned int law_error
  class_registered,  \* static unsigned char class_registered (law_create)
  exit_func,         \* void (*__law_exit_func)(int)
  hwnds,             \* native window table: handle -> window record
  heap,              \* malloc arena: pointer -> [status, frees, data]
  queue,             \* the thread's message queue, in retrieval order
  registerLog,       \* results of the RegisterClassW calls made so far
  creates,           \* number of law_create calls made so far
  assigned,          \* law_Data blocks the application or a callback has written
  op                 \* the last public call: its name, its result, the
                     \* outcomes chosen for it, the number of messages it
                     \* retrieved, the number of callbacks it invoked and
                     \* the exit codes it gave to the hook
VARIABLES
  main               \* the test program's main(): its position (pc), its
                     \* locals win and windata, the notifications the
                     \* backend has still to queue (todo), the number of
                     \* maximize notifications queued so far (posted) and
                     \* the titles given to SetWindowTextW so far (titles)

vars == <<NDEBUG, aborted, law_error, class_registered, exit_func, hwnds,
          heap, queue, registerLog, creates, assigned, op, main>>

\* The world record the operators transform.  Besides the state it holds
\* what one public call lets an observer see: in, the outcomes chosen by
\* the environment for this call; ret, the value returned by the last
\* native or library function; calls, the user callbacks invoked; defs,
\* the messages given to DefWindowProcW; exits, the exit codes passed to
\* the exit hook; peeks, the number of messages PeekMessageW retrieved;
\* titles, the titles given to SetWindowTextW; running, the user callbacks
\* that have been entered and have not returned; freed, the calls of free;
\* undefined, the number of reads through a pointer to no live state;
\* dispatched, the messages DispatchMessageW gave to a window procedure.
World(in) ==
  [NDEBUG |-> NDEBUG, aborted |-> aborted, law_error |-> law_error,
   class_registered |-> class_registered, exit_func |-> exit_func,
   hwnds |-> hwnds, heap |-> heap, queue |-> queue,
   registerLog |-> registerLog, creates |-> creates,
   assigned |-> assigned, op |-> op, main |-> main, calls |-> <<>>,
   defs |-> <<>>, exits |-> <<>>, titles |-> <<>>, running |-> <<>>,
   freed |-> <<>>, undefined |-> 0, dispatched |-> <<>>, peeks |-> 0,
   in |-> in, ret |-> NULL]

Commit(s) ==
  /\ NDEBUG' = s.NDEBUG
  /\ aborted' = s.aborted
  /\ law_error' = s.law_error
  /\ class_registered' = s.class_registered
  /\ exit_func' = s.exit_func
  /\ hwnds' = s.hwnds
  /\ heap' = s.heap
  /\ queue' = s.queue
  /\ registerLog' = s.registerLog
  /\ creates' = s.creates
  /\ assigned' = s.assigned
  /\ op' = s.op
  /\ main' = s.main

NoInput ==
  [reg |-> TRUE, native |-> TRUE, malloc |-> TRUE, ub |-> "crash",
   ndebug |-> TRUE, touch |-> TRUE, pen |-> TRUE]

\* ------------------------------------------------------- C integer macros
LOWORD(l) == l % 65536
HIWORD(l) == (l \div 65536) % 65536
\* wParam & 0xFFF0
MaskFFF0(w) == ((w \div 16) % 4096) * 16

XBUTTON1 == 1
GET_XBUTTON_WPARAM(w) == HIWORD(w)
\* (short)HIWORD(wParam)
GET_WHEEL_DELTA_WPARAM(w) ==
  IF HIWORD(w) >= 32768 THEN HIWORD(w) - 65536 ELSE HIWORD(w)

\* assert(0 && "..."): abort() unless NDEBUG is defined.  The first
\* assert(0) reached shows which build is running.
assert0(s) ==
  IF s.NDEBUG = "defined" \/ s.in.ndebug
  THEN [s EXCEPT !.NDEBUG = "defined"]
  ELSE [s EXCEPT !.aborted = TRUE]


\* One statement of the process.  The world s it starts from is evaluated
\* once, as C evaluates an argument once, and a process that has crashed
\* or aborted executes nothing more.
Step(s, F(_)) ==
  CHOOSE t \in {IF x.aborted THEN x ELSE F(x) : x \in {s}} : TRUE

\* ------------------------------------------------------------- C library
UninitData ==
  [event |-> [sl \in Slots |-> UNINIT], running |-> UNINIT_INT,
   user_data |-> UNINIT_INT]

UnusedPtrs(s) == {p \in Ptrs : s.heap[p].status = "unused"}
MinOf(S) == CHOOSE x \in S : \A y \in S : x <= y

\* malloc(sizeof(law_Data)): a fresh block with indeterminate contents, or
\* NULL when the allocation fails.
malloc(s) ==
  IF s.in.malloc /\ UnusedPtrs(s) # {}
  THEN LET p == MinOf(UnusedPtrs(s)) IN
       [s EXCEPT !.heap[p] = [status |-> "allocated", frees |-> 0,
                              data |-> UninitData],
                 !.ret = p]
  ELSE [s EXCEPT !.ret = NULL]

\* free(p): the block is released and its contents become indeterminate.
free(s, p) ==
  Step(s, LAMBDA x :
    IF p = NULL THEN x
    ELSE [x EXCEPT !.heap[p].status = "freed", !.heap[p].frees = @ + 1,
                   !.heap[p].data = UninitData,
                   !.freed = Append(@, [ptr |-> p, running |-> x.running,
                                        ncalls |-> Len(x.calls)])])

\* A pointer that may be dereferenced.
Valid(s, p) == p # NULL /\ s.heap[p].status = "allocated"

\* Reading through a null or dangling pointer is undefined: the process
\* crashes, or the read yields zero bytes and execution goes on.
UndefinedRead(s) ==
  IF s.in.ub = "crash"
  THEN [s EXCEPT !.aborted = TRUE, !.undefined = @ + 1]
  ELSE [s EXCEPT !.undefined = @ + 1]

\* return v; and law_error = code;
Return(s, v) == Step(s, LAMBDA x : [x EXCEPT !.ret = v])

SetLawError(s, code) == Step(s, LAMBDA x : [x EXCEPT !.law_error = code])

\* --------------------------------------------------------- native backend
RECURSIVE law_proc(_, _)

Msg(hwnd, message, wParam, lParam) ==
  [hwnd |-> hwnd, message |-> message, wParam |-> wParam, lParam |-> lParam]

IsWindow(s, hwnd) ==
  hwnd \in Handles /\ s.hwnds[hwnd].status \in {"creating", "live", "destroying"}

GetWindowLongPtrW(s, hwnd) ==
  IF IsWindow(s, hwnd) THEN s.hwnds[hwnd].userdata ELSE NULL

SetWindowLongPtrW(s, hwnd, value) ==
  IF IsWindow(s, hwnd) THEN [s EXCEPT !.hwnds[hwnd].userdata = value] ELSE s

\* A sent message is handled by the window procedure before the call returns.
SendMessageW(s, hwnd, message, wParam, lParam) ==
  IF s.aborted \/ ~IsWindow(s, hwnd) THEN s
  ELSE law_proc(s, Msg(hwnd, message, wParam, lParam))

PostQuitMessage(s, exit_code) ==
  Step(s, LAMBDA x :
    [x EXCEPT !.queue = Append(@, Msg(NULL, "WM_QUIT", exit_code, 0))])

UnusedWindow == [status |-> "unused", userdata |-> NULL, title |-> ""]

\* A destroyed window keeps nothing but the value of its user-data slot.
DestroyedWindow(win) ==
  [status |-> "destroyed", userdata |-> win.userdata, title |-> ""]

\* DestroyWindow sends WM_DESTROY, then the handle becomes invalid and the
\* messages still queued for the window are discarded.
InvalidateHandle(s, hwnd) ==
  Step(s, LAMBDA x :
    [x EXCEPT !.hwnds[hwnd] = DestroyedWindow(@),
              !.queue = SelectSeq(@, LAMBDA m : m.hwnd # hwnd),
              !.ret = 1])

DestroyWindow(s, hwnd) ==
  Step(s, LAMBDA x :
    IF ~(hwnd \in Handles /\ x.hwnds[hwnd].status \in {"creating", "live"})
    THEN [x EXCEPT !.ret = 0]
    ELSE InvalidateHandle(
           law_proc([x EXCEPT !.hwnds[hwnd].status = "destroying"],
                    Msg(hwnd, "WM_DESTROY", 0, 0)),
           hwnd))

SetWindowTextW(s, hwnd, title) ==
  Step(s, LAMBDA x :
    IF IsWindow(x, hwnd)
    THEN [x EXCEPT !.hwnds[hwnd].title = title,
                   !.titles = Append(@, title)]
    ELSE x)

MaximizedLParam == 768 * 65536 + 1024

\* ShowWindow(hwnd, SW_MAXIMIZE) resizes the window: the window procedure
\* is sent WM_SIZE with the new client size before the call returns.
\* ShowWindow(hwnd, SW_SHOW) and ShowWindow(hwnd, SW_HIDE) send
\* WM_SHOWWINDOW with wParam 1 and 0.
ShowWindow(s, hwnd, cmd) ==
  IF ~IsWindow(s, hwnd)
     \/ cmd \notin {"SW_MAXIMIZE", "SW_MINIMIZE", "SW_SHOW", "SW_HIDE"}
  THEN s
  ELSE SendMessageW(s, hwnd,
                    IF cmd \in {"SW_SHOW", "SW_HIDE"} THEN "WM_SHOWWINDOW"
                    ELSE "WM_SIZE",
                    CASE cmd = "SW_MAXIMIZE" -> 2
                      [] cmd = "SW_MINIMIZE" -> 1
                      [] cmd = "SW_SHOW" -> 1
                      [] cmd = "SW_HIDE" -> 0,
                    IF cmd = "SW_MAXIMIZE" THEN MaximizedLParam ELSE 0)

\* Default native handling: WM_CLOSE destroys the window, the system
\* commands are carried out, every other message has no effect here.
DefWindowProcW(s, msg) ==
  Step(s, LAMBDA x :
    LET s1 == [x EXCEPT !.defs = Append(@, msg)]
        command == MaskFFF0(msg.wParam)
    IN Return(
         CASE msg.message = "WM_CLOSE" -> DestroyWindow(s1, msg.hwnd)
           [] msg.message = "WM_SYSCOMMAND"
                /\ command \in {SC_MAXIMIZE, SC_MINIMIZE} ->
                ShowWindow(s1, msg.hwnd,
                           IF command = SC_MAXIMIZE THEN "SW_MAXIMIZE"
                           ELSE "SW_MINIMIZE")
           [] OTHER -> s1,
         0))


\* ------------------------------------------------- application callbacks
\* Stores made by the application through the law_Data pointer.
WriteSlot(s, win_data, slot, f) ==
  Step(s, LAMBDA x :
    IF ~Valid(x, win_data) THEN UndefinedRead(x)
    ELSE [x EXCEPT !.heap[win_data].data.event[slot] = f,
                   !.assigned = @ \cup {win_data}])

WriteRunning(s, win_data, v) ==
  Step(s, LAMBDA x :
    IF ~Valid(x, win_data) THEN UndefinedRead(x)
    ELSE [x EXCEPT !.heap[win_data].data.running = v,
                   !.assigned = @ \cup {win_data}])

law_exit(s, exit_code) == PostQuitMessage(s, exit_code)

law_destroy(s, window) == DestroyWindow(s, window)

law_maximize(s, window) == ShowWindow(s, window, "SW_MAXIMIZE")

law_show(s, window) == ShowWindow(s, window, "SW_SHOW")

law_hide(s, window) == ShowWindow(s, window, "SW_HIDE")

law_minimize(s, window) == ShowWindow(s, window, "SW_MINIMIZE")

law_setTitle(s, window, title) == SetWindowTextW(s, window, title)

on_close(s, window, win_data) ==
  law_exit(WriteRunning(s, win_data, 0), 0)

\* on_maximize without the store of another_maximize.
on_maximize_no_swap(s, window, win_data) ==
  law_setTitle(law_maximize(s, window), window, "Maximized Window")

on_maximize(s, window, win_data) ==
  WriteSlot(law_setTitle(law_maximize(s, window), window,
                         "Maximized Window"),
            win_data, "maximize", "another_maximize")

another_maximize(s, window, win_data) ==
  WriteSlot(law_setTitle(law_maximize(s, window), window,
                         "Maximized(another) Window"),
            win_data, "maximize", "on_maximize")

\* Callbacks an application can write with the public interface:
\* on_destroy returns at once, on_destroying calls law_destroy(window),
\* on_touch_swap stores on_event in the touch slot and on_touch_clear
\* stores NULL there; on_mouse_down, on_mouse_up and on_minimize return at
\* once.
on_destroying(s, window, win_data) == law_destroy(s, window)

on_touch_swap(s, window, win_data) ==
  WriteSlot(s, win_data, "touch", "on_event")

on_touch_clear(s, window, win_data) ==
  WriteSlot(s, win_data, "touch", NULLFN)

\* The functions an application may store in a slot: the three of the test
\* program, on_event, a callback that returns at once, and the four above.
Handlers ==
  {"on_close", "on_maximize", "another_maximize", "on_event", "on_destroy",
   "on_destroying", "on_touch_swap", "on_touch_clear", "on_mouse_down",
   "on_mouse_up", "on_minimize"}

\* The callback returns to the wrapper that called it.
Leave(s) == Step(s, LAMBDA x : [x EXCEPT !.running = SubSeq(@, 1, Len(@) - 1)])

\* A call through a function pointer read from a slot.  Every call is
\* recorded with its arguments and with whether the law_Data block passed
\* to it is still allocated at the time of the call.
Invoke(s, f, window, win_data, args) ==
  LET s1 == [s EXCEPT !.calls = Append(@, [fn |-> f, hwnd |-> window,
                                           data |-> win_data, args |-> args,
                                           alive |-> Valid(s, win_data)]),
                      !.running = Append(@, [fn |-> f, hwnd |-> window])]
  IN Leave(CASE f = "on_close" -> on_close(s1, window, win_data)
             [] f = "on_maximize" -> on_maximize(s1, window, win_data)
             [] f = "another_maximize" ->
                  another_maximize(s1, window, win_data)
             [] f = "on_destroying" -> on_destroying(s1, window, win_data)
             [] f = "on_touch_swap" -> on_touch_swap(s1, window, win_data)
             [] f = "on_touch_clear" -> on_touch_clear(s1, window, win_data)
             [] f \in {"on_event", "on_destroy", "on_mouse_down",
                       "on_mouse_up", "on_minimize"} -> s1
             [] OTHER -> [s1 EXCEPT !.aborted = TRUE])

\* ------------------------------------------------------ message wrappers
\* #define EVENT ((law_Events*)GetWindowLongPtrW(window, GWLP_USERDATA))
\* EVENT reading the state of the first window that has one.
EVENT_first_window(s, window) ==
  IF \E h \in Handles : IsWindow(s, h) /\ s.hwnds[h].userdata # NULL
  THEN s.hwnds[MinOf({h \in Handles :
                       IsWindow(s, h) /\ s.hwnds[h].userdata # NULL})].userdata
  ELSE GetWindowLongPtrW(s, window)

EVENT(s, window) == GetWindowLongPtrW(s, window)

\* EventCall with default handling after the callback as well.
EventCall_also_default(s, msg, slot, args) ==
  IF ~Valid(s, EVENT(s, msg.hwnd))
  THEN DefWindowProcW(UndefinedRead(s), msg)
  ELSE IF s.heap[EVENT(s, msg.hwnd)].data.event[slot] = NULLFN
  THEN DefWindowProcW(s, msg)
  ELSE DefWindowProcW(
         Invoke(s, s.heap[EVENT(s, msg.hwnd)].data.event[slot],
                msg.hwnd, GetWindowLongPtrW(s, msg.hwnd), args),
         msg)

\* The shape shared by the wrappers of one slot: default handling when the
\* slot is null, otherwise one call of the slot with (window, win_data,
\* args) and no default handling.
EventCall(s, msg, slot, args) ==
  IF ~Valid(s, EVENT(s, msg.hwnd))
  THEN DefWindowProcW(UndefinedRead(s), msg)
  ELSE IF s.heap[EVENT(s, msg.hwnd)].data.event[slot] = NULLFN
  THEN DefWindowProcW(s, msg)
  ELSE Return(Invoke(s, s.heap[EVENT(s, msg.hwnd)].data.event[slot],
                     msg.hwnd, GetWindowLongPtrW(s, msg.hwnd), args),
              0)

\* law_initEvents without the store to the pen slot.
law_initEvents_skips_pen(events) ==
  [sl \in Slots |-> IF sl = "pen" THEN events[sl] ELSE NULLFN]

\* law_initEvents: every slot of the table is set to NULL.
law_initEvents(events) ==
  [sl \in Slots |->
     IF sl \in {"destroy", "close", "resize", "move", "focus", "unfocus",
                "redraw", "minimize", "maximize", "show", "hide",
                "file_drop", "touch", "key_down", "key_up", "mouse_move",
                "mouse_down", "mouse_up", "mouse_wheel", "pen"}
     THEN NULLFN ELSE events[sl]]

\* __law_wrapperCreate without the SetWindowLongPtrW call.
__law_wrapperCreate_no_attach(s, msg) ==
  LET s1 == malloc(s)
      win_data == s1.ret
  IN IF win_data = NULL
     THEN [s1 EXCEPT !.law_error = LAW_ERROR_ALLOCATE_MEMORY_FOR_PARAMS,
                     !.ret = 0]
     ELSE [s1 EXCEPT !.heap[win_data].data.event = law_initEvents(@),
                     !.heap[win_data].data.running = 1,
                     !.heap[win_data].data.user_data = NULL,
                     !.ret = 0]

__law_wrapperCreate(s, msg) ==
  LET s1 == malloc(s)
      win_data == s1.ret
  IN IF win_data = NULL
     THEN Return(SetLawError(DestroyWindow(assert0(s1), msg.hwnd),
                             LAW_ERROR_ALLOCATE_MEMORY_FOR_PARAMS),
                 0)
     ELSE LET s2 == [s1 EXCEPT
                       !.heap[win_data].data.event = law_initEvents(@),
                       !.heap[win_data].data.running = 1,
                       !.heap[win_data].data.user_data = NULL]
              s3 == SetWindowLongPtrW(s2, msg.hwnd, win_data)
          IN [s3 EXCEPT !.ret = 0]

\* __law_wrapperDestroy with the state released before the callback.
__law_wrapperDestroy_free_first(s, msg) ==
  IF ~Valid(s, EVENT(s, msg.hwnd))
  THEN DefWindowProcW(UndefinedRead(s), msg)
  ELSE IF s.heap[EVENT(s, msg.hwnd)].data.event["destroy"] = NULLFN
  THEN DefWindowProcW(s, msg)
  ELSE LET win_data == GetWindowLongPtrW(s, msg.hwnd)
       IN Return(Invoke(free(s, win_data),
                        s.heap[EVENT(s, msg.hwnd)].data.event["destroy"],
                        msg.hwnd, win_data, <<>>),
                 0)

__law_wrapperDestroy(s, msg) ==
  IF ~Valid(s, EVENT(s, msg.hwnd))
  THEN DefWindowProcW(UndefinedRead(s), msg)
  ELSE IF s.heap[EVENT(s, msg.hwnd)].data.event["destroy"] = NULLFN
  THEN DefWindowProcW(s, msg)
  ELSE LET win_data == GetWindowLongPtrW(s, msg.hwnd)
       IN Return(free(Invoke(s, s.heap[EVENT(s, msg.hwnd)].data.event["destroy"],
                             msg.hwnd, win_data, <<>>),
                      win_data),
                 0)

\* __law_wrapperClose clearing the running flag itself.
__law_wrapperClose_clears_running(s, msg) ==
  EventCall(WriteRunning(s, GetWindowLongPtrW(s, msg.hwnd), 0), msg, "close",
            <<>>)

__law_wrapperClose(s, msg) == EventCall(s, msg, "close", <<>>)

__law_wrapperResize(s, msg) ==
  EventCall(s, msg, "resize", <<LOWORD(msg.lParam), HIWORD(msg.lParam)>>)

__law_wrapperMove(s, msg) ==
  EventCall(s, msg, "move", <<LOWORD(msg.lParam), HIWORD(msg.lParam)>>)

__law_wrapperFocus(s, msg) == EventCall(s, msg, "focus", <<>>)

__law_wrapperUnfocus(s, msg) == EventCall(s, msg, "unfocus", <<>>)

__law_wrapperRedraw(s, msg) == EventCall(s, msg, "redraw", <<>>)

\* __law_wrapperSysCommand calling the maximize handler it saw first
\* instead of the one now in the slot.
\* __law_wrapperSysCommand comparing the raw parameter.
__law_wrapperSysCommand_unmasked(s, msg) ==
  LET command == msg.wParam
  IN IF command = SC_MINIMIZE THEN EventCall(s, msg, "minimize", <<>>)
     ELSE IF command = SC_MAXIMIZE THEN EventCall(s, msg, "maximize", <<>>)
     ELSE DefWindowProcW(s, msg)

__law_wrapperSysCommand_cached(s, msg) ==
  LET command == MaskFFF0(msg.wParam)
      win_data == GetWindowLongPtrW(s, msg.hwnd)
  IN IF command = SC_MAXIMIZE /\ Valid(s, win_data)
        /\ s.heap[win_data].data.event["maximize"] # NULLFN
     THEN Return(Invoke(s, "on_maximize", msg.hwnd, win_data, <<>>), 0)
     ELSE DefWindowProcW(s, msg)

__law_wrapperSysCommand(s, msg) ==
  LET command == MaskFFF0(msg.wParam)
  IN IF command = SC_MINIMIZE THEN EventCall(s, msg, "minimize", <<>>)
     ELSE IF command = SC_MAXIMIZE THEN EventCall(s, msg, "maximize", <<>>)
     ELSE DefWindowProcW(s, msg)

__law_wrapperShow(s, msg) ==
  IF msg.wParam # 0 THEN EventCall(s, msg, "show", <<>>)
  ELSE EventCall(s, msg, "hide", <<>>)

__law_wrapperKeyDown(s, msg) == EventCall(s, msg, "key_down", <<msg.wParam>>)

__law_wrapperKeyUp(s, msg) == EventCall(s, msg, "key_up", <<msg.wParam>>)

__law_wrapperMouseMove(s, msg) ==
  EventCall(s, msg, "mouse_move", <<LOWORD(msg.lParam), HIWORD(msg.lParam)>>)

__law_wrapperLButtonDown(s, msg) ==
  EventCall(s, msg, "mouse_down", <<LAW_MOUSE_LEFT>>)

__law_wrapperRButtonDown(s, msg) ==
  EventCall(s, msg, "mouse_down", <<LAW_MOUSE_RIGHT>>)

__law_wrapperMButtonDown(s, msg) ==
  EventCall(s, msg, "mouse_down", <<LAW_MOUSE_MIDDLE>>)

\* __law_wrapperXButtonDown with the two extra buttons exchanged.
__law_wrapperXButtonDown_swapped(s, msg) ==
  EventCall(s, msg, "mouse_down",
            <<IF GET_XBUTTON_WPARAM(msg.wParam) = XBUTTON1
              THEN LAW_MOUSE_X2 ELSE LAW_MOUSE_X1>>)

__law_wrapperXButtonDown(s, msg) ==
  EventCall(s, msg, "mouse_down",
            <<IF GET_XBUTTON_WPARAM(msg.wParam) = XBUTTON1
              THEN LAW_MOUSE_X1 ELSE LAW_MOUSE_X2>>)

__law_wrapperLButtonUp(s, msg) ==
  EventCall(s, msg, "mouse_up", <<LAW_MOUSE_LEFT>>)

__law_wrapperRButtonUp(s, msg) ==
  EventCall(s, msg, "mouse_up", <<LAW_MOUSE_RIGHT>>)

__law_wrapperMButtonUp(s, msg) ==
  EventCall(s, msg, "mouse_up", <<LAW_MOUSE_MIDDLE>>)

__law_wrapperXButtonUp(s, msg) ==
  EventCall(s, msg, "mouse_up",
            <<IF GET_XBUTTON_WPARAM(msg.wParam) = XBUTTON1
              THEN LAW_MOUSE_X1 ELSE LAW_MOUSE_X2>>)

__law_wrapperMouseWheel(s, msg) ==
  EventCall(s, msg, "mouse_wheel", <<GET_WHEEL_DELTA_WPARAM(msg.wParam)>>)

\* The file_drop slot is only tested: no call is made through it.
__law_wrapperFileDrop(s, msg) ==
  IF ~Valid(s, EVENT(s, msg.hwnd))
  THEN DefWindowProcW(UndefinedRead(s), msg)
  ELSE IF s.heap[EVENT(s, msg.hwnd)].data.event["file_drop"] = NULLFN
  THEN DefWindowProcW(s, msg)
  ELSE [s EXCEPT !.ret = 0]

\* The length of the array touch_input of __law_wrapperTouch.
TOUCH_BUFFER == 10

\* C's division of signed integers truncates toward zero.
CDiv(a, b) == IF a >= 0 THEN a \div b ELSE -((-a) \div b)

\* What the backend holds for point i (from 0) of the touch input handle h:
\* coordinates in hundredths of a pixel.
TouchInput(h, i) == [x |-> 100 * (10 * h + i) + 37, y |-> 100 * i + 99]

\* The backend copies c_inputs structures into the caller's array and
\* returns nonzero, or fails and returns 0.  The caller's array holds
\* TOUCH_BUFFER structures: a longer copy writes past its end, which is
\* undefined.
GetTouchInputInfo(s, c_inputs) ==
  IF ~s.in.touch THEN [s EXCEPT !.ret = 0]
  ELSE IF c_inputs > TOUCH_BUFFER THEN [UndefinedRead(s) EXCEPT !.ret = 1]
  ELSE [s EXCEPT !.ret = 1]

\* One pass of the loop of __law_wrapperTouch: the state and the touch slot
\* are read again from the window's user-data slot, then the slot is called.
\* The offsets dx and dy are computed and not used.
TouchPoint(s, msg, i) ==
  IF ~Valid(s, EVENT(s, msg.hwnd)) THEN UndefinedRead(s)
  ELSE Invoke(s, s.heap[EVENT(s, msg.hwnd)].data.event["touch"], msg.hwnd,
              GetWindowLongPtrW(s, msg.hwnd),
              <<CDiv(TouchInput(msg.lParam, i).x, 100),
                CDiv(TouchInput(msg.lParam, i).y, 100)>>)

RECURSIVE TouchLoop(_, _, _, _)
TouchLoop(s, msg, i, c_inputs) ==
  Step(s, LAMBDA x :
    IF i >= c_inputs THEN x
    ELSE TouchLoop(TouchPoint(x, msg, i), msg, i + 1, c_inputs))

\* The body of `if (GetTouchInputInfo(...))`; s.ret is what it returned.
\* CloseTouchInputHandle changes nothing that is modelled.
TouchInputs(s, msg, c_inputs) ==
  Step(s, LAMBDA x : IF x.ret = 0 THEN x ELSE TouchLoop(x, msg, 0, c_inputs))

__law_wrapperTouch(s, msg) ==
  IF ~Valid(s, EVENT(s, msg.hwnd))
  THEN DefWindowProcW(UndefinedRead(s), msg)
  ELSE IF s.heap[EVENT(s, msg.hwnd)].data.event["touch"] = NULLFN
  THEN DefWindowProcW(s, msg)
  ELSE Return(TouchInputs(GetTouchInputInfo(s, LOWORD(msg.wParam)), msg,
                          LOWORD(msg.wParam)),
              0)

\* What the backend holds for the pointer pointer_id.
PenInfo(pointer_id) ==
  [pressure |-> 512 + pointer_id, tiltX |-> 10, tiltY |-> 20]

GetPointerPenInfo(s, pointer_id) == [s EXCEPT !.ret = IF s.in.pen THEN 1 ELSE 0]

\* __law_wrapperPointerUpdate calling the slot whatever the query returned.
__law_wrapperPointerUpdate_unchecked(s, msg) ==
  IF ~Valid(s, EVENT(s, msg.hwnd))
  THEN DefWindowProcW(UndefinedRead(s), msg)
  ELSE IF s.heap[EVENT(s, msg.hwnd)].data.event["pen"] = NULLFN
  THEN DefWindowProcW(s, msg)
  ELSE Return(Invoke(s, s.heap[EVENT(s, msg.hwnd)].data.event["pen"],
                     msg.hwnd, GetWindowLongPtrW(s, msg.hwnd),
                     <<LOWORD(msg.wParam), PenInfo(LOWORD(msg.wParam)).pressure,
                       PenInfo(LOWORD(msg.wParam)).tiltX,
                       PenInfo(LOWORD(msg.wParam)).tiltY>>),
              0)

__law_wrapperPointerUpdate(s, msg) ==
  IF ~Valid(s, EVENT(s, msg.hwnd))
  THEN DefWindowProcW(UndefinedRead(s), msg)
  ELSE IF s.heap[EVENT(s, msg.hwnd)].data.event["pen"] = NULLFN
  THEN DefWindowProcW(s, msg)
  ELSE IF GetPointerPenInfo(s, LOWORD(msg.wParam)).ret = 0
  THEN [s EXCEPT !.ret = 0]
  ELSE Return(Invoke(s, s.heap[EVENT(s, msg.hwnd)].data.event["pen"],
                     msg.hwnd, GetWindowLongPtrW(s, msg.hwnd),
                     <<LOWORD(msg.wParam), PenInfo(LOWORD(msg.wParam)).pressure,
                       PenInfo(LOWORD(msg.wParam)).tiltX,
                       PenInfo(LOWORD(msg.wParam)).tiltY>>),
              0)

law_proc(hwnd_s, m) ==
  Step(hwnd_s, LAMBDA x :
       CASE m.message = "WM_SIZE" -> __law_wrapperResize(x, m)
         [] m.message = "WM_MOVE" -> __law_wrapperMove(x, m)
         [] m.message = "WM_PAINT" -> __law_wrapperRedraw(x, m)
         [] m.message = "WM_MOUSEMOVE" -> __law_wrapperMouseMove(x, m)
         [] m.message = "WM_KEYDOWN" -> __law_wrapperKeyDown(x, m)
         [] m.message = "WM_KEYUP" -> __law_wrapperKeyUp(x, m)
         [] m.message = "WM_LBUTTONDOWN" -> __law_wrapperLButtonDown(x, m)
         [] m.message = "WM_RBUTTONDOWN" -> __law_wrapperRButtonDown(x, m)
         [] m.message = "WM_MBUTTONDOWN" -> __law_wrapperMButtonDown(x, m)
         [] m.message = "WM_XBUTTONDOWN" -> __law_wrapperXButtonDown(x, m)
         [] m.message = "WM_LBUTTONUP" -> __law_wrapperLButtonUp(x, m)
         [] m.message = "WM_RBUTTONUP" -> __law_wrapperRButtonUp(x, m)
         [] m.message = "WM_MBUTTONUP" -> __law_wrapperMButtonUp(x, m)
         [] m.message = "WM_XBUTTONUP" -> __law_wrapperXButtonUp(x, m)
         [] m.message = "WM_MOUSEWHEEL" -> __law_wrapperMouseWheel(x, m)
         [] m.message = "WM_TOUCH" -> __law_wrapperTouch(x, m)
         [] m.message = "WM_POINTERUPDATE" -> __law_wrapperPointerUpdate(x, m)
         [] m.message = "WM_DROPFILES" -> __law_wrapperFileDrop(x, m)
         [] m.message = "WM_SYSCOMMAND" -> __law_wrapperSysCommand(x, m)
         [] m.message = "WM_SHOWWINDOW" -> __law_wrapperShow(x, m)
         [] m.message = "WM_SETFOCUS" -> __law_wrapperFocus(x, m)
         [] m.message = "WM_KILLFOCUS" -> __law_wrapperUnfocus(x, m)
         [] m.message = "WM_CLOSE" -> __law_wrapperClose(x, m)
         [] m.message = "WM_CREATE" -> __law_wrapperCreate(x, m)
         [] m.message = "WM_DESTROY" -> __law_wrapperDestroy(x, m)
         [] OTHER -> DefWindowProcW(x, m))


\* ----------------------------------------------------------- message pump
\* PeekMessageW(&msg, window, 0, 0, PM_REMOVE): the first pending message
\* of the given window (of any window when window is NULL); WM_QUIT is
\* retrieved whatever the window filter.  0 when nothing is pending.
Matches(m, window) ==
  m.message = "WM_QUIT" \/ window = NULL \/ m.hwnd = window

\* PeekIndex retrieving the last matching message instead of the first.
PeekIndex_last(q, window) ==
  IF \E i \in 1..Len(q) : Matches(q[i], window)
  THEN CHOOSE i \in 1..Len(q) :
         /\ Matches(q[i], window)
         /\ \A j \in 1..Len(q) : Matches(q[j], window) => j <= i
  ELSE 0

PeekIndex(q, window) ==
  IF \E i \in 1..Len(q) : Matches(q[i], window)
  THEN MinOf({i \in 1..Len(q) : Matches(q[i], window)})
  ELSE 0

RemoveAt(q, i) == SubSeq(q, 1, i - 1) \o SubSeq(q, i + 1, Len(q))

\* DispatchMessageW calls the window procedure of the message's window; a
\* message whose window is gone is dropped.
\* DispatchMessageW giving the message to the window procedure twice.
DispatchMessageW_twice(s, msg) ==
  IF IsWindow(s, msg.hwnd)
  THEN Step(law_proc([s EXCEPT !.dispatched = Append(@, msg)], msg),
            LAMBDA x :
              IF IsWindow(x, msg.hwnd)
              THEN law_proc([x EXCEPT !.dispatched = Append(@, msg)], msg)
              ELSE x)
  ELSE s

DispatchMessageW(s, msg) ==
  IF IsWindow(s, msg.hwnd)
  THEN law_proc([s EXCEPT !.dispatched = Append(@, msg)], msg)
  ELSE s

\* A call of the exit hook with the exit code.
CallExitFunc(s, code) == [s EXCEPT !.exits = Append(@, code)]

\* law_update peeking the quit message without removing it.
RECURSIVE law_update_keeps_quit(_, _)
law_update_keeps_quit(s, window) ==
  Step(s, LAMBDA x :
    IF PeekIndex(x.queue, window) = 0 THEN x
    ELSE LET i == PeekIndex(x.queue, window)
             msg == x.queue[i]
             s1 == [x EXCEPT !.queue = RemoveAt(@, i), !.peeks = @ + 1]
         IN IF msg.message = "WM_QUIT"
            THEN IF x.exit_func # NULLFN
                 THEN CallExitFunc([x EXCEPT !.peeks = @ + 1], msg.wParam)
                 ELSE [x EXCEPT !.peeks = @ + 1]
            ELSE law_update_keeps_quit(DispatchMessageW(s1, msg), window))

\* law_update without the break after WM_QUIT.
RECURSIVE law_update_no_break(_, _)
law_update_no_break(s, window) ==
  Step(s, LAMBDA x :
    IF PeekIndex(x.queue, window) = 0 THEN x
    ELSE LET i == PeekIndex(x.queue, window)
             msg == x.queue[i]
             s1 == [x EXCEPT !.queue = RemoveAt(@, i), !.peeks = @ + 1]
         IN IF msg.message = "WM_QUIT"
            THEN law_update_no_break(
                   IF s1.exit_func # NULLFN THEN CallExitFunc(s1, msg.wParam)
                   ELSE s1, window)
            ELSE law_update_no_break(DispatchMessageW(s1, msg), window))

\* law_update calling the exit hook when PeekMessageW finds nothing.
RECURSIVE law_update_exit_on_empty(_, _)
law_update_exit_on_empty(s, window) ==
  Step(s, LAMBDA x :
    IF PeekIndex(x.queue, window) = 0
    THEN IF x.exit_func # NULLFN THEN CallExitFunc(x, 0) ELSE x
    ELSE LET i == PeekIndex(x.queue, window)
             msg == x.queue[i]
             s1 == [x EXCEPT !.queue = RemoveAt(@, i), !.peeks = @ + 1]
         IN IF msg.message = "WM_QUIT"
            THEN IF s1.exit_func # NULLFN
                 THEN CallExitFunc(s1, msg.wParam)
                 ELSE s1
            ELSE law_update_exit_on_empty(DispatchMessageW(s1, msg), window))

RECURSIVE law_update(_, _)
law_update(s, window) ==
  Step(s, LAMBDA x :
    IF PeekIndex(x.queue, window) = 0 THEN x
    ELSE LET i == PeekIndex(x.queue, window)
             msg == x.queue[i]
             s1 == [x EXCEPT !.queue = RemoveAt(@, i), !.peeks = @ + 1]
         IN IF msg.message = "WM_QUIT"
            THEN IF s1.exit_func # NULLFN
                 THEN CallExitFunc(s1, msg.wParam)
                 ELSE s1
            ELSE law_update(DispatchMessageW(s1, msg), window))

law_setAppExit(s, function_pointer) ==
  [s EXCEPT !.exit_func = function_pointer]

\* -------------------------------------------------------- window creation
UnusedHandles(s) == {h \in Handles : s.hwnds[h].status = "unused"}

\* RegisterClassW: the environment decides whether it succeeds.
RegisterClassW(s) ==
  [s EXCEPT !.registerLog = Append(@, s.in.reg),
            !.ret = IF s.in.reg THEN 1 ELSE 0]

\* CreateWindowExW: on success the window exists, WM_CREATE is sent to the
\* window procedure before the call returns, and the handle is returned; a
\* window destroyed while it is being created yields NULL.
WindowCreated(s, hwnd) ==
  Step(s, LAMBDA x :
    IF x.hwnds[hwnd].status # "creating" THEN [x EXCEPT !.ret = NULL]
    ELSE [x EXCEPT !.hwnds[hwnd].status = "live", !.ret = hwnd])

CreateWindowExW(s, title) ==
  IF ~s.in.native \/ UnusedHandles(s) = {} THEN [s EXCEPT !.ret = NULL]
  ELSE LET hwnd == MinOf(UnusedHandles(s))
       IN WindowCreated(
            law_proc([s EXCEPT !.hwnds[hwnd] =
                        [status |-> "creating", userdata |-> NULL,
                         title |-> title]],
                     Msg(hwnd, "WM_CREATE", 0, 0)),
            hwnd)

\* law_create_hwnd storing LAW_ERROR_NONE when the window was created.
law_create_hwnd_resets_error(s) ==
  Step(s, LAMBDA x :
    IF x.ret = NULL
    THEN Return(SetLawError(assert0(x), LAW_ERROR_CREATE_WINDOW), NULL)
    ELSE [x EXCEPT !.law_error = LAW_ERROR_NONE])

\* law_create_hwnd without the store to law_error.
law_create_hwnd_keeps_error(s) ==
  Step(s, LAMBDA x : IF x.ret = NULL THEN Return(assert0(x), NULL) ELSE x)

\* The end of law_create, s.ret being the hwnd CreateWindowExW returned.
law_create_hwnd(s) ==
  Step(s, LAMBDA x :
    IF x.ret = NULL
    THEN Return(SetLawError(assert0(x), LAW_ERROR_CREATE_WINDOW), NULL)
    ELSE x)

\* The part of law_create after the class is registered.
law_create_window(s, title) == law_create_hwnd(CreateWindowExW(s, title))

\* law_create without the test of class_registered.
law_create_always_registers(s, title) ==
  LET s1 == RegisterClassW(s)
  IN IF s1.ret = 0
     THEN Return(SetLawError(assert0(s1), LAW_ERROR_CREATE_WINDOW), NULL)
     ELSE law_create_window([s1 EXCEPT !.class_registered = 1], title)

law_create(s, title) ==
  IF s.class_registered = 0
  THEN LET s1 == RegisterClassW(s)
       IN IF s1.ret = 0
          THEN Return(SetLawError(assert0(s1), LAW_ERROR_CREATE_WINDOW), NULL)
          ELSE law_create_window([s1 EXCEPT !.class_registered = 1], title)
  ELSE law_create_window(s, title)

law_getData(s, window) == GetWindowLongPtrW(s, window)


\* ---------------------------------------------------------- error messages
\* A char is a one-character string; NUL is the zero terminator.
NUL == "NUL"

\* The four string literals that the compiler concatenates into error_arena.
\* Each ends with the one NUL its "\0" escape adds; the terminator of the
\* whole literal follows the last of them.
error_arena ==
  (
   <<"N", "o", " ", "e", "r", "r", "o", "r", " ", "=", ")">>
   \o <<NUL>>) \o
  (
   <<"F", "a", "i", "l", "e", "d", " ", "t", "o", " ", "c", "r", "e", "a",
     "t", "e", " ", "w", "i", "n", "d", "o", "w">>
   \o <<NUL>>) \o
  (
   <<"F", "a", "i", "l", "e", "d", " ", "t", "o", " ", "a", "l", "l", "o",
     "c", "a", "t", "e", " ", "m", "e", "m", "o", "r", "y", " ", "f", "o",
     "r", " ", "w", "i", "n", "d", "o", "w", " ", "p", "a", "r", "a", "m",
     "e", "t", "e", "r", "s">>
   \o <<NUL>>) \o
  (
   <<"F", "a", "i", "l", "e", "d", " ", "t", "o", " ", "r", "e", "g", "i",
     "s", "t", "e", "r", " ", "w", "i", "n", "d", "o", "w", " ", "c", "l",
     "a", "s", "s">>
   \o <<NUL>>) \o
  <<NUL>>

indices == <<0, 13, 38, 87>>
indices_length == Len(indices)

UnknownError ==
  <<"U", "n", "k", "n", "o", "w", "n", " ", "e", "r", "r", "o", "r">>

\* The C string that starts at mem + offset: the chars before the next NUL.
CString(mem, offset) ==
  LET end == MinOf({i \in (offset + 1)..Len(mem) : mem[i] = NUL})
  IN SubSeq(mem, offset + 1, end - 1)

\* assert(cond)
assert(s, cond) == IF cond THEN s ELSE assert0(s)

law_getErrorMsg(s, error_code) ==
  Return(assert(s, error_code >= 0 /\ error_code < 3),
         IF error_code < indices_length
         THEN CString(error_arena, indices[error_code + 1])
         ELSE UnknownError)


\* ------------------------------------------------------------ environment
ExitCodes == {7}

\* The notifications the native backend queues for a window.
PostedMessages(w) ==
  {Msg(w, "WM_SYSCOMMAND", SC_MAXIMIZE, 0),
   Msg(w, "WM_CLOSE", 0, 0)}

\* The stores the application makes into the Event Table.
AppSlotMenu ==
  {<<"destroy", "on_event">>, <<"maximize", "on_maximize">>}

ExitHooks == {NULLFN, "app_exit"}

LiveHandles == {h \in Handles : hwnds[h].status = "live"}

\* The outcomes the environment chooses for one law_create call: whether
\* RegisterClassW, CreateWindowExW and malloc succeed, and what the
\* undefined read does.  An outcome that the call cannot reach is fixed.
Inputs ==
  {in \in [reg : BOOLEAN, native : BOOLEAN, malloc : BOOLEAN,
           ub : {"crash", "absent"}, ndebug : BOOLEAN] :
     /\ (class_registered = 1 => in.reg)
     /\ (~in.reg => in.native)
     /\ (in.native => \E h \in Handles : hwnds[h].status = "unused")
     /\ (~in.native => in.malloc)
     /\ ((in.reg /\ in.native /\ in.malloc) \/ NDEBUG = "defined" => in.ndebug)
     /\ (in.malloc \/ ~in.ndebug => in.ub = "crash")}

Done(s, name, in) ==
  \E x \in {s} :
    Commit([x EXCEPT !.op = [name |-> name, result |-> x.ret,
                             in |-> in, peeks |-> x.peeks,
                             ncalls |-> Len(x.calls), exits |-> x.exits,
                             undefined |-> x.undefined]])

\* main() of the test program has not been started.
MainOff ==
  [pc |-> "off", win |-> NULL, windata |-> NULL, todo |-> <<>>,
   posted |-> 0, titles |-> <<>>]

\* ---------------------------------------------------------------- actions
InitGlobals ==
  /\ NDEBUG = "undetermined"
  /\ aborted = FALSE
  /\ law_error = LAW_ERROR_NONE
  /\ class_registered = 0
  /\ exit_func = NULLFN
  /\ hwnds = [h \in Handles |-> UnusedWindow]
  /\ heap = [p \in Ptrs |-> [status |-> "unused", frees |-> 0,
                             data |-> UninitData]]
  /\ queue = <<>>
  /\ registerLog = <<>>
  /\ creates = 0
  /\ assigned = {}
  /\ op = [name |-> "idle", result |-> NULL, in |-> NoInput,
           peeks |-> 0, ncalls |-> 0, exits |-> <<>>, undefined |-> 0]

Init ==
  /\ InitGlobals
  /\ main = MainOff

\* law_create(400, 100, L"Window 1", NULL)
LawCreate ==
  /\ ~aborted
  /\ creates < MaxCreates
  /\ \E in \in Inputs :
       Done(law_create([World(in) EXCEPT !.creates = @ + 1], "Window 1"),
            "law_create", in)

\* law_destroy(window)
LawDestroy ==
  /\ ~aborted
  /\ \E w \in LiveHandles :
       Done(law_destroy(World(NoInput), w), "law_destroy", NoInput)

\* law_update(window) and law_update(NULL)
LawUpdate ==
  /\ ~aborted
  /\ \E w \in LiveHandles \cup {NULL} :
       Done(law_update(World(NoInput), w), "law_update", NoInput)

\* law_exit(exit_code) called by the application outside any callback
LawExit ==
  /\ ~aborted
  /\ Len(queue) < MaxQueue
  /\ \E c \in ExitCodes :
       Done(law_exit(World(NoInput), c), "law_exit", NoInput)

\* law_setAppExit(function_pointer)
LawSetAppExit ==
  /\ ~aborted
  /\ \E f \in ExitHooks :
       /\ f # exit_func
       /\ Done(law_setAppExit(World(NoInput), f), "idle", NoInput)

\* law_getData(window)->event.<slot> = f
AppAssignSlot ==
  /\ ~aborted
  /\ \E w \in LiveHandles, a \in AppSlotMenu :
       /\ heap[hwnds[w].userdata].data.event[a[1]] = NULLFN
       /\ Done(WriteSlot(World(NoInput), law_getData(World(NoInput), w),
                         a[1], a[2]),
               "idle", NoInput)

\* The native backend queues a notification for a live window.
PostMessage ==
  /\ ~aborted
  /\ Len(queue) < MaxQueue
  /\ \E w \in LiveHandles : \E m \in PostedMessages(w) :
       Done([World(NoInput) EXCEPT !.queue = Append(@, m)], "idle", NoInput)

Next ==
  \/ LawCreate
  \/ LawDestroy
  \/ LawUpdate
  \/ LawExit
  \/ LawSetAppExit
  \/ AppAssignSlot
  \/ PostMessage

Spec == Init /\ [][Next]_vars

\* law_getErrorMsg(error_code), for the codes up to MaxErrorCode, in both
\* builds.
ErrorCodeInputs == 0..MaxErrorCode

LawGetErrorMsg ==
  /\ ~aborted
  /\ \E code \in ErrorCodeInputs, nd \in BOOLEAN :
       /\ (NDEBUG = "defined" \/ code < 3) => nd
       /\ LET in == [reg |-> TRUE, native |-> TRUE, malloc |-> TRUE,
                     ub |-> "crash", ndebug |-> nd, code |-> code]
          IN Done(law_getErrorMsg(World(in), code), "law_getErrorMsg", in)

NextErrorMsg == LawGetErrorMsg

SpecErrorMsg == Init /\ [][NextErrorMsg]_vars

\* ------------------------------------------- the test program's run loop
\* The notifications the user causes while main() runs: some maximize
\* commands, then one close.
RunLoopScripts ==
  {[i \in 1..(k + 1) |-> IF i <= k THEN "maximize" ELSE "close"] :
     k \in 0..MaxMaximize}

ScriptMsg(kind, w) ==
  IF kind = "maximize" THEN Msg(w, "WM_SYSCOMMAND", SC_MAXIMIZE, 0)
  ELSE Msg(w, "WM_CLOSE", 0, 0)

InitRunLoop ==
  /\ InitGlobals
  /\ \E script \in RunLoopScripts :
       main = [MainOff EXCEPT !.pc = "create", !.todo = script]

\* if (!win) return 1;  law_show(win);
MainAfterCreate(s) ==
  Step(s, LAMBDA x :
    IF x.ret = NULL THEN [x EXCEPT !.main.pc = "returned1"]
    ELSE law_show([x EXCEPT !.main.win = x.ret, !.main.pc = "getData"],
                  x.ret))

\* law_Window win = law_create(400, 100, L"Window 1", NULL);
MainCreate ==
  /\ ~aborted
  /\ main.pc = "create"
  /\ \E in \in Inputs :
       Done(MainAfterCreate(law_create([World(in) EXCEPT !.creates = @ + 1],
                                       "Window 1")),
            "law_create", in)

\* law_Data* windata = law_getData(win); and the two handler stores
MainInstall ==
  /\ ~aborted
  /\ main.pc = "getData"
  /\ LET windata == law_getData(World(NoInput), main.win)
     IN Done(WriteSlot(WriteSlot([World(NoInput) EXCEPT
                                    !.main.windata = windata,
                                    !.main.pc = "loop"],
                                 windata, "close", "on_close"),
                       windata, "maximize", "on_maximize"),
             "idle", NoInput)

\* The titles a call gave to SetWindowTextW are added to main.titles.
MainKeepTitles(s) ==
  Step(s, LAMBDA x : [x EXCEPT !.main.titles = @ \o x.titles])

\* while (windata->running) { law_update(NULL); }
MainUpdate ==
  /\ ~aborted
  /\ main.pc = "loop"
  /\ IF ~Valid(World(NoInput), main.windata)
     THEN Done(UndefinedRead(World(NoInput)), "idle", NoInput)
     ELSE /\ heap[main.windata].data.running # 0
          /\ Done(MainKeepTitles(law_update(World(NoInput), NULL)),
                  "law_update", NoInput)

\* the loop ends; law_destroy(win); return 0;
MainExitLoop ==
  /\ ~aborted
  /\ main.pc = "loop"
  /\ Valid(World(NoInput), main.windata)
  /\ heap[main.windata].data.running = 0
  /\ Done(law_destroy([World(NoInput) EXCEPT !.main.pc = "returned0"],
                      main.win),
          "law_destroy", NoInput)

\* The backend queues the next notification of the script for the window.
BackendPost ==
  /\ ~aborted
  /\ main.todo # <<>>
  /\ main.win \in LiveHandles
  /\ Len(queue) < MaxQueue
  /\ Done([World(NoInput) EXCEPT
             !.queue = Append(@, ScriptMsg(Head(main.todo), main.win)),
             !.main.todo = Tail(@),
             !.main.posted = IF Head(main.todo) = "maximize"
                             THEN @ + 1 ELSE @],
          "idle", NoInput)

NextRunLoop ==
  \/ MainCreate
  \/ MainInstall
  \/ MainUpdate
  \/ MainExitLoop
  \/ BackendPost

\* main() keeps running and the backend delivers the whole script.
SpecRunLoop ==
  /\ InitRunLoop
  /\ [][NextRunLoop]_vars
  /\ WF_vars(MainUpdate)
  /\ WF_vars(MainExitLoop)
  /\ WF_vars(BackendPost)

\* ------------------------------------ one window and its notifications
\* What a pump call lets an observer see: the window it was given, the
\* queue and the Event Tables (by handle) it started from, the callbacks
\* it invoked and the messages it gave to DefWindowProcW.
Pumped(s, window) ==
  \E x \in {s} :
    Commit([x EXCEPT !.op =
              [name |-> "pump", window |-> window, queue |-> queue,
               events |-> [h \in Handles |->
                             IF Valid(World(NoInput), hwnds[h].userdata)
                             THEN heap[hwnds[h].userdata].data.event
                             ELSE [sl \in Slots |-> NULLFN]],
               data |-> [h \in Handles |-> hwnds[h].userdata],
               calls |-> x.calls, defs |-> x.defs, freed |-> x.freed,
               exits |-> x.exits, in |-> x.in]])

\* law_create succeeds once: the scenario has one window.
OneCreate ==
  /\ ~aborted
  /\ creates = 0
  /\ Done(law_create([World(NoInput) EXCEPT !.creates = @ + 1], "Window 1"),
          "law_create", NoInput)

\* law_getData(window)->event.<slot> = f, into at most max slots
AssignFrom(menu, max) ==
  /\ ~aborted
  /\ \E w \in LiveHandles, a \in menu :
       /\ heap[hwnds[w].userdata].data.event[a[1]] = NULLFN
       /\ Cardinality({sl \in Slots :
             heap[hwnds[w].userdata].data.event[sl] # NULLFN}) < max
       /\ Done(WriteSlot(World(NoInput), law_getData(World(NoInput), w),
                         a[1], a[2]),
               "idle", NoInput)

\* The backend queues one of the notifications msgs(w) for a live window.
PostFrom(msgs, max) ==
  /\ ~aborted
  /\ Len(queue) < max
  /\ \E w \in LiveHandles : \E m \in msgs[w] :
       Done([World(NoInput) EXCEPT !.queue = Append(@, m)], "idle", NoInput)

\* law_update(window) and law_update(NULL) with something pending
Pump ==
  /\ ~aborted
  /\ queue # <<>>
  /\ \E w \in LiveHandles \cup {NULL} :
       Pumped(law_update(World(NoInput), w), w)

\* The notifications of the kinds with one slot and one callback.
DispatchMessages(w) ==
  {Msg(w, "WM_CLOSE", 0, 0),
   Msg(w, "WM_SIZE", 0, 100 * 65536 + 400),
   Msg(w, "WM_MOVE", 0, 20 * 65536 + 10),
   Msg(w, "WM_SETFOCUS", 0, 0),
   Msg(w, "WM_KILLFOCUS", 0, 0),
   Msg(w, "WM_PAINT", 0, 0),
   Msg(w, "WM_KEYDOWN", 65, 0),
   Msg(w, "WM_KEYUP", 65, 0),
   Msg(w, "WM_MOUSEMOVE", 0, 7 * 65536 + 5),
   Msg(w, "WM_LBUTTONDOWN", 1, 0),
   Msg(w, "WM_RBUTTONDOWN", 2, 0),
   Msg(w, "WM_MBUTTONDOWN", 16, 0),
   Msg(w, "WM_XBUTTONDOWN", 1 * 65536 + 32, 0),
   Msg(w, "WM_XBUTTONDOWN", 2 * 65536 + 64, 0),
   Msg(w, "WM_LBUTTONUP", 0, 0),
   Msg(w, "WM_RBUTTONUP", 0, 0),
   Msg(w, "WM_MBUTTONUP", 0, 0),
   Msg(w, "WM_XBUTTONUP", 1 * 65536, 0),
   Msg(w, "WM_XBUTTONUP", 2 * 65536, 0),
   Msg(w, "WM_MOUSEWHEEL", 120 * 65536, 0)}

DispatchSlotMenu ==
  {<<sl, "on_event">> :
     sl \in {"close", "resize", "move", "focus", "unfocus", "redraw",
             "key_down", "key_up", "mouse_move", "mouse_down", "mouse_up",
             "mouse_wheel"}}
  \cup {<<"close", "on_close">>}

DispatchAssign == AssignFrom(DispatchSlotMenu, MaxHandlers)

DispatchPost ==
  PostFrom([w \in Handles |-> DispatchMessages(w)], MaxPending)

NextDispatch ==
  \/ OneCreate
  \/ DispatchAssign
  \/ DispatchPost
  \/ Pump

SpecDispatch == Init /\ [][NextDispatch]_vars

\* --------------------------------------- the order of the notifications
\* The i-th notification the backend queues carries i in the parameter its
\* callback receives.  op.posted counts the notifications queued so far
\* and op.called lists that parameter for every callback invoked so far.
Posted == IF op.name = "order" THEN op.posted ELSE 0

Called == IF op.name = "order" THEN op.called ELSE <<>>

Ordered(s, posts) ==
  \E x \in {s} :
    Commit([x EXCEPT !.op =
              [name |-> "order", posted |-> Posted + posts,
               called |-> Called \o [i \in 1..Len(x.calls) |->
                                      x.calls[i].args[1]]]])

OrderMessages(w, i) ==
  {Msg(w, "WM_KEYDOWN", i, 0), Msg(w, "WM_KEYUP", i, 0),
   Msg(w, "WM_SIZE", 0, i)}

OrderSlotMenu ==
  {<<"key_down", "on_event">>, <<"key_up", "on_event">>,
   <<"resize", "on_event">>}

OrderAssign ==
  /\ ~aborted
  /\ \E w \in LiveHandles, a \in OrderSlotMenu :
       /\ heap[hwnds[w].userdata].data.event[a[1]] = NULLFN
       /\ Ordered(WriteSlot(World(NoInput), law_getData(World(NoInput), w),
                            a[1], a[2]), 0)

OrderPost ==
  /\ ~aborted
  /\ Posted < MaxPosts
  /\ Len(queue) < MaxQueue
  /\ \E w \in LiveHandles : \E m \in OrderMessages(w, Posted + 1) :
       Ordered([World(NoInput) EXCEPT !.queue = Append(@, m)], 1)

OrderPump ==
  /\ ~aborted
  /\ queue # <<>>
  /\ \E w \in LiveHandles \cup {NULL} :
       Ordered(law_update(World(NoInput), w), 0)

NextOrder ==
  \/ OneCreate
  \/ OrderAssign
  \/ OrderPost
  \/ OrderPump

SpecOrder == Init /\ [][NextOrder]_vars

\* --------------------------------------------------- every core operation
\* The dispatch scenario together with the operations the application calls
\* outside callbacks: law_exit, law_setAppExit and the operations that pass
\* a handle to the backend.
HandleOps ==
  {"law_setTitle", "law_hide", "law_show", "law_minimize", "law_maximize",
   "law_getData", "law_destroy"}

HandleOp ==
  /\ ~aborted
  /\ \E w \in LiveHandles, f \in HandleOps :
       Done(CASE f = "law_setTitle" ->
                   law_setTitle(World(NoInput), w, "Maximized Window")
              [] f = "law_hide" -> law_hide(World(NoInput), w)
              [] f = "law_show" -> law_show(World(NoInput), w)
              [] f = "law_minimize" -> law_minimize(World(NoInput), w)
              [] f = "law_maximize" -> law_maximize(World(NoInput), w)
              [] f = "law_getData" ->
                   Return(World(NoInput), law_getData(World(NoInput), w))
              [] f = "law_destroy" -> law_destroy(World(NoInput), w),
            "idle", NoInput)

\* law_exit called with nothing pending.
FrameExit == queue = <<>> /\ LawExit

NextFrame ==
  \/ OneCreate
  \/ DispatchAssign
  \/ DispatchPost
  \/ Pump
  \/ FrameExit
  \/ LawSetAppExit
  \/ HandleOp

SpecFrame == Init /\ [][NextFrame]_vars

\* ------------------------------------------------- quit among notifications
\* One window, an exit hook or none, and up to MaxPosts pending
\* notifications among which law_exit has queued quit notifications.
QuitMessages(w) ==
  {Msg(w, "WM_KEYDOWN", 65, 0), Msg(w, "WM_KEYUP", 65, 0),
   Msg(w, "WM_CLOSE", 0, 0)}

QuitSlotMenu == {<<"key_down", "on_event">>}

QuitAssign == AssignFrom(QuitSlotMenu, Cardinality(QuitSlotMenu))

QuitPost == PostFrom([w \in Handles |-> QuitMessages(w)], MaxPosts)

QuitExit ==
  /\ ~aborted
  /\ Len(queue) < MaxPosts
  /\ \E c \in ExitCodes :
       Done(law_exit(World(NoInput), c), "law_exit", NoInput)

NextQuit ==
  \/ OneCreate
  \/ QuitAssign
  \/ QuitPost
  \/ QuitExit
  \/ LawSetAppExit
  \/ Pump

SpecQuit == Init /\ [][NextQuit]_vars

\* ------------------------------------------------------ several windows
\* Every window the backend can hand out is created; each has its own
\* handlers, and key and close notifications are queued for any of them.
EachCreate ==
  /\ ~aborted
  /\ creates < MaxWindows
  /\ Done(law_create([World(NoInput) EXCEPT !.creates = @ + 1], "Window 1"),
          "law_create", NoInput)

WindowsMessages(w) ==
  {Msg(w, "WM_KEYDOWN", 65, 0), Msg(w, "WM_CLOSE", 0, 0)}

WindowsSlotMenu ==
  {<<"key_down", "on_event">>, <<"close", "on_close">>,
   <<"destroy", "on_destroy">>}

WindowsAssign == AssignFrom(WindowsSlotMenu, Cardinality(WindowsSlotMenu))

WindowsPost == PostFrom([w \in Handles |-> WindowsMessages(w)], MaxPending)

NextWindows ==
  \/ EachCreate
  \/ WindowsAssign
  \/ WindowsPost
  \/ Pump

SpecWindows == Init /\ [][NextWindows]_vars

\* ------------------------------------------------------- mouse buttons
\* One window with a handler of its own in the button-down slot and another
\* in the button-up slot, and the ten button notifications.
XBUTTON2 == 2

ButtonMessages(w) ==
  {Msg(w, "WM_LBUTTONDOWN", 1, 0),
   Msg(w, "WM_RBUTTONDOWN", 2, 0),
   Msg(w, "WM_MBUTTONDOWN", 16, 0),
   Msg(w, "WM_XBUTTONDOWN", XBUTTON1 * 65536 + 32, 0),
   Msg(w, "WM_XBUTTONDOWN", XBUTTON2 * 65536 + 64, 0),
   Msg(w, "WM_LBUTTONUP", 0, 0),
   Msg(w, "WM_RBUTTONUP", 0, 0),
   Msg(w, "WM_MBUTTONUP", 0, 0),
   Msg(w, "WM_XBUTTONUP", XBUTTON1 * 65536, 0),
   Msg(w, "WM_XBUTTONUP", XBUTTON2 * 65536, 0)}

ButtonSlotMenu ==
  {<<"mouse_down", "on_mouse_down">>, <<"mouse_up", "on_mouse_up">>}

ButtonAssign == AssignFrom(ButtonSlotMenu, Cardinality(ButtonSlotMenu))

ButtonPost == PostFrom([w \in Handles |-> ButtonMessages(w)], MaxPending)

NextButton ==
  \/ OneCreate
  \/ ButtonAssign
  \/ ButtonPost
  \/ Pump

SpecButton == Init /\ [][NextButton]_vars

\* ------------------------------------------------------ system commands
\* One window and system-command notifications: minimize and maximize, each
\* also with the low four bits the backend uses internally, and a command
\* of another subtype (0xF100, the keyboard menu).
SysCommandMessages(w) ==
  {Msg(w, "WM_SYSCOMMAND", SC_MINIMIZE, 0),
   Msg(w, "WM_SYSCOMMAND", SC_MINIMIZE + 1, 0),
   Msg(w, "WM_SYSCOMMAND", SC_MAXIMIZE, 0),
   Msg(w, "WM_SYSCOMMAND", SC_MAXIMIZE + 2, 0),
   Msg(w, "WM_SYSCOMMAND", SC_MAXIMIZE + 16 * 13, 0)}

SysCommandSlotMenu ==
  {<<"minimize", "on_minimize">>, <<"maximize", "on_maximize">>,
   <<"resize", "on_event">>}

SysCommandAssign ==
  AssignFrom(SysCommandSlotMenu, Cardinality(SysCommandSlotMenu))

SysCommandPost ==
  PostFrom([w \in Handles |-> SysCommandMessages(w)], MaxPending)

NextSysCommand ==
  \/ OneCreate
  \/ SysCommandAssign
  \/ SysCommandPost
  \/ Pump

SpecSysCommand == Init /\ [][NextSysCommand]_vars

\* ----------------------------------- touch, pen, file drop and re-entrancy
\* One window whose callbacks use the public interface on their own window
\* (law_destroy, stores in the Event Table), and the notifications that
\* reach them.  The lParam of a touch notification is its input handle, the
\* low word of wParam the number of points; the low word of the wParam of a
\* pointer update is the pointer identifier, the high word holds flags.
TouchCounts == {1, 2, TOUCH_BUFFER, TOUCH_BUFFER + 1}

TouchMessages(w) ==
  {Msg(w, "WM_TOUCH", n, 1) : n \in TouchCounts}
  \cup {Msg(w, "WM_DROPFILES", 1, 0), Msg(w, "WM_CLOSE", 0, 0),
        Msg(w, "WM_POINTERUPDATE", 7, 0),
        Msg(w, "WM_POINTERUPDATE", 3 * 65536 + 9, 0)}

TouchSlotMenu ==
  {<<"touch", f>> :
     f \in {"on_event", "on_touch_swap", "on_touch_clear", "on_destroying"}}
  \cup {<<"destroy", "on_destroy">>, <<"close", "on_destroying">>,
        <<"file_drop", "on_event">>, <<"pen", "on_event">>}

TouchAssign == AssignFrom(TouchSlotMenu, Cardinality(Slots))

TouchPost == PostFrom([w \in Handles |-> TouchMessages(w)], MaxPending)

\* law_update; the backend's GetTouchInputInfo and GetPointerPenInfo succeed
\* or fail together, and an undefined access ends the process or goes
\* unnoticed.
TouchPump ==
  /\ ~aborted
  /\ queue # <<>>
  /\ \E w \in LiveHandles, ub \in {"crash", "absent"}, ok \in BOOLEAN :
       Pumped(law_update(World([NoInput EXCEPT !.ub = ub, !.touch = ok,
                                              !.pen = ok]), w),
              w)

NextTouch ==
  \/ OneCreate
  \/ TouchAssign
  \/ TouchPost
  \/ TouchPump

SpecTouch == Init /\ [][NextTouch]_vars

\* ------------------------------------------------------------ properties
InitialData ==
  [event |-> [sl \in Slots |-> NULLFN], running |-> 1, user_data |-> NULL]

Last(q) == q[Len(q)]

MaximizeMsg(w) == Msg(w, "WM_SYSCOMMAND", SC_MAXIMIZE, 0)

Other(f) == IF f = "on_maximize" THEN "another_maximize" ELSE "on_maximize"

\* C1: every window that was created with a Window State and has been
\* destroyed has had that state freed exactly once, whether or not a
\* destroy callback was registered, and no state is ever freed twice.
C1_DestroyFreesStateOnce ==
  /\ \A h \in Handles :
       hwnds[h].status = "destroyed" /\ hwnds[h].userdata # NULL
         => /\ heap[hwnds[h].userdata].status = "freed"
            /\ heap[hwnds[h].userdata].frees = 1
  /\ \A p \in Ptrs : heap[p].frees <= 1

C3_StateReferenceStable ==
  [][\A h \in Handles :
       /\ hwnds'[h].status = "live" => hwnds'[h].userdata # NULL
       /\ hwnds[h].status = "live" /\ hwnds'[h].status = "live"
            => hwnds'[h].userdata = hwnds[h].userdata]_vars

C3_Witness ==
  /\ op.name = "law_update"
  /\ op.ncalls > 0
  /\ \E h \in LiveHandles :
       heap[hwnds[h].userdata].data.event["maximize"] = "another_maximize"

C5_RegisterFailureReported ==
  (op.name = "law_create" /\ ~aborted /\ registerLog # <<>>
     /\ ~registerLog[1])
    => op.result = NULL /\ law_error = LAW_ERROR_REGISTER_WINDOW_CLASS

\* C6: when malloc fails in the creation notification, law_create returns
\* NULL with law_error equal to LAW_ERROR_ALLOCATE_MEMORY_FOR_PARAMS (2)
\* and the native window is destroyed: no live window lacks a law_Data.
C6_AllocFailureFailsCreate ==
  (op.name = "law_create" /\ op.in.reg /\ op.in.native /\ ~op.in.malloc
     /\ ~aborted)
    => /\ op.result = NULL
       /\ law_error = LAW_ERROR_ALLOCATE_MEMORY_FOR_PARAMS
       /\ \A h \in Handles :
            hwnds[h].status \in {"creating", "live"}
              => hwnds[h].userdata # NULL

C8_MaximizeSlotReRead ==
  \A w \in LiveHandles :
    LET p == hwnds[w].userdata
        h == heap[p].data.event["maximize"]
        r1 == DispatchMessageW(World(NoInput), MaximizeMsg(w))
        r2 == DispatchMessageW(r1, MaximizeMsg(w))
        r == law_update(World(NoInput), NULL)
    IN ~aborted /\ h \in {"on_maximize", "another_maximize"}
         => /\ Len(r1.calls) = 1
            /\ r1.calls[1].fn = h
            /\ r1.calls[1].hwnd = w
            /\ r1.calls[1].data = p
            /\ r1.heap[p].data.event["maximize"] = Other(h)
            /\ Len(r2.calls) = 2
            /\ r2.calls[2].fn = Other(h)
            /\ r2.heap[p].data.event["maximize"] = h
            /\ (\A i \in 1..Len(queue) : queue[i] = MaximizeMsg(w))
                 => /\ Len(r.calls) = Len(queue)
                    /\ \A i \in 1..Len(r.calls) :
                         r.calls[i].fn = IF i % 2 = 1 THEN h ELSE Other(h)

C8_Witness ==
  /\ op.name = "law_update"
  /\ op.ncalls = 2
  /\ \E w \in LiveHandles :
       /\ hwnds[w].title = "Maximized(another) Window"
       /\ heap[hwnds[w].userdata].data.event["maximize"] = "on_maximize"

FirstQuit(q) == MinOf({i \in 1..Len(q) : q[i].message = "WM_QUIT"})

\* C9: a pump that retrieves WM_QUIT calls the exit hook, when one is set,
\* exactly once with the exit code of that message and calls nothing when
\* none is set; the quit is not given to the window procedure, and the pump
\* returns with every notification that was queued behind the quit still
\* pending, in order.
C9_QuitStopsPump ==
  \A w \in LiveHandles \cup {NULL} :
    (~aborted /\ \E i \in 1..Len(queue) : queue[i].message = "WM_QUIT")
      => LET k == FirstQuit(queue)
             r == law_update(World(NoInput), w)
             Kept(m) == m.message = "WM_QUIT" \/ IsWindow(r, m.hwnd)
             Skipped(m) == ~Matches(m, w) /\ Kept(m)
         IN /\ r.exits = IF exit_func # NULLFN THEN <<queue[k].wParam>>
                         ELSE <<>>
            /\ r.queue = SelectSeq(SubSeq(queue, 1, k - 1), Skipped)
                           \o SelectSeq(SubSeq(queue, k + 1, Len(queue)), Kept)
            /\ \A i \in 1..Len(r.defs) : r.defs[i].message # "WM_QUIT"
            /\ \A i \in 1..Len(r.calls) : r.calls[i].hwnd # NULL
            /\ r.peeks <= k
            /\ r.exit_func = exit_func

C9_Witness ==
  /\ op.name = "law_update"
  /\ op.exits = <<7>>
  /\ queue # <<>>
  /\ queue[1].message # "WM_QUIT"

\* C10: a pump made when PeekMessageW finds nothing pending calls no
\* callback and no exit hook, gives nothing to the window procedure and
\* leaves the whole state (every law_Data, law_error, class_registered,
\* the exit hook, the queue) as it was.
C10_EmptyPumpDoesNothing ==
  \A w \in LiveHandles \cup {NULL} :
    ~aborted /\ PeekIndex(queue, w) = 0
      => law_update(World(NoInput), w) = World(NoInput)

C10_Witness ==
  /\ op.name = "law_update"
  /\ op.peeks = 0
  /\ exit_func # NULLFN
  /\ \E w \in LiveHandles :
       heap[hwnds[w].userdata].data.event["maximize"] # NULLFN

\* The message texts the specification gives for the codes 0..3.
MessageText ==
  <<
   <<"N", "o", " ", "e", "r", "r", "o", "r", " ", "=", ")">>,
   <<"F", "a", "i", "l", "e", "d", " ", "t", "o", " ", "c", "r", "e", "a",
     "t", "e", " ", "w", "i", "n", "d", "o", "w">>,
   <<"F", "a", "i", "l", "e", "d", " ", "t", "o", " ", "a", "l", "l", "o",
     "c", "a", "t", "e", " ", "m", "e", "m", "o", "r", "y", " ", "f", "o",
     "r", " ", "w", "i", "n", "d", "o", "w", " ", "p", "a", "r", "a", "m",
     "e", "t", "e", "r", "s">>,
   <<"F", "a", "i", "l", "e", "d", " ", "t", "o", " ", "r", "e", "g", "i",
     "s", "t", "e", "r", " ", "w", "i", "n", "d", "o", "w", " ", "c", "l",
     "a", "s", "s">>
  >>

\* C11: law_getErrorMsg(code) returns, for each of the codes 0..3, that
\* code's own complete message text from its first character on.
C11_ErrorMessageTexts ==
  (op.name = "law_getErrorMsg" /\ op.in.code \in 0..3 /\ ~aborted)
    => op.result = MessageText[op.in.code + 1]

\* C12: law_getErrorMsg of a code outside 0..3 returns "Unknown error" as
\* a normal result, without an abort, and law_getErrorMsg(0) returns the
\* no-error text.
C12_UnknownErrorText ==
  op.name = "law_getErrorMsg" =>
    /\ op.in.code \notin 0..3 => (~aborted /\ op.result = UnknownError)
    /\ op.in.code = 0 => (~aborted /\ op.result = MessageText[1])

Alternating(n) ==
  [i \in 1..n |-> IF i % 2 = 1 THEN "Maximized Window"
                  ELSE "Maximized(another) Window"]

MaximizePending ==
  Len(SelectSeq(queue, LAMBDA m : m.message = "WM_SYSCOMMAND"))

\* The title has changed once per maximize notification pumped so far,
\* alternating between the two titles, and main() returns only when the
\* whole script and the quit notification have been pumped.
C13_TitlesAlternate ==
  /\ main.titles = Alternating(main.posted - MaximizePending)
  /\ main.pc = "returned0" =>
       /\ main.todo = <<>>
       /\ queue = <<>>
       /\ main.titles = Alternating(main.posted)

\* C13: in the run-loop scenario the title changes exactly once per
\* maximize notification, alternating between "Maximized Window" and
\* "Maximized(another) Window", and the loop terminates after the close
\* notification once the quit notification has been pumped.
C13_RunLoop ==
  /\ []C13_TitlesAlternate
  /\ (main.pc = "loop") ~> (main.pc = "returned0")

C13_Witness ==
  /\ main.pc = "returned0"
  /\ main.titles = Alternating(MaxMaximize)
  /\ op.name = "law_destroy"

\* The slot and the callback arguments the normalization rules give for a
\* notification of a kind with one slot.
Expected(m) ==
  LET lo == m.lParam % 65536
      hi == (m.lParam \div 65536) % 65536
      whi == (m.wParam \div 65536) % 65536
      x == IF whi = 1 THEN 4 ELSE 5
      delta == IF whi >= 32768 THEN whi - 65536 ELSE whi
      kind == m.message
  IN CASE kind = "WM_CLOSE" -> [slot |-> "close", args |-> <<>>]
       [] kind = "WM_SIZE" -> [slot |-> "resize", args |-> <<lo, hi>>]
       [] kind = "WM_MOVE" -> [slot |-> "move", args |-> <<lo, hi>>]
       [] kind = "WM_SETFOCUS" -> [slot |-> "focus", args |-> <<>>]
       [] kind = "WM_KILLFOCUS" -> [slot |-> "unfocus", args |-> <<>>]
       [] kind = "WM_PAINT" -> [slot |-> "redraw", args |-> <<>>]
       [] kind = "WM_KEYDOWN" -> [slot |-> "key_down", args |-> <<m.wParam>>]
       [] kind = "WM_KEYUP" -> [slot |-> "key_up", args |-> <<m.wParam>>]
       [] kind = "WM_MOUSEMOVE" -> [slot |-> "mouse_move", args |-> <<lo, hi>>]
       [] kind = "WM_LBUTTONDOWN" -> [slot |-> "mouse_down", args |-> <<1>>]
       [] kind = "WM_RBUTTONDOWN" -> [slot |-> "mouse_down", args |-> <<2>>]
       [] kind = "WM_MBUTTONDOWN" -> [slot |-> "mouse_down", args |-> <<3>>]
       [] kind = "WM_XBUTTONDOWN" -> [slot |-> "mouse_down", args |-> <<x>>]
       [] kind = "WM_LBUTTONUP" -> [slot |-> "mouse_up", args |-> <<1>>]
       [] kind = "WM_RBUTTONUP" -> [slot |-> "mouse_up", args |-> <<2>>]
       [] kind = "WM_MBUTTONUP" -> [slot |-> "mouse_up", args |-> <<3>>]
       [] kind = "WM_XBUTTONUP" -> [slot |-> "mouse_up", args |-> <<x>>]
       [] kind = "WM_MOUSEWHEEL" -> [slot |-> "mouse_wheel", args |-> <<delta>>]

\* C14: a notification of kind close, resize, move, focus, unfocus,
\* redraw, key down/up, mouse move/down/up/wheel pumped for a live window
\* gets default native handling and no callback when its slot is absent,
\* and otherwise exactly one call of the slot with (handle, state,
\* normalized parameters) and no default handling.
C14_SlotDispatch ==
  (op.name = "pump" /\ ~aborted /\ Len(op.queue) = 1
     /\ op.queue[1].message # "WM_QUIT") =>
    LET m == op.queue[1]
        e == Expected(m)
        f == op.events[m.hwnd][e.slot]
    IN IF f = NULLFN
       THEN op.calls = <<>> /\ op.defs # <<>> /\ op.defs[1] = m
       ELSE /\ op.calls = <<[fn |-> f, hwnd |-> m.hwnd,
                             data |-> op.data[m.hwnd], args |-> e.args,
                             alive |-> TRUE]>>
            /\ op.defs = <<>>

C14_Witness ==
  /\ op.name = "pump"
  /\ op.queue = <<Msg(1, "WM_XBUTTONDOWN", 2 * 65536 + 64, 0)>>
  /\ Len(op.calls) = 1
  /\ op.calls[1].args = <<LAW_MOUSE_X2>>

\* C15: the callbacks of one window are invoked in the order in which the
\* backend queued the window's notifications, over one or more pump calls.
C15_CallbacksInQueueOrder ==
  \A i, j \in 1..Len(Called) : i < j => Called[i] < Called[j]

C15_Witness ==
  /\ Called = <<1, 2, 3>>
  /\ queue = <<>>

\* The state of the window of a callback record, before the pump.
StateOf(r) == op.data[r.hwnd]

\* C16: while a callback the dispatcher invoked for a window is executing,
\* the state of that window is not freed, whatever the callback does with
\* the public interface: no call of free happens with a callback of the
\* freed state's window entered and not returned.
\* Refuted: a close callback that calls law_destroy(window) runs while
\* __law_wrapperDestroy frees the state.
C16_NoFreeWhileCallbackRuns ==
  op.name = "pump" =>
    \A k \in 1..Len(op.freed) :
      \A r \in 1..Len(op.freed[k].running) :
        StateOf(op.freed[k].running[r]) # op.freed[k].ptr

\* The calls of the destroy callback in the last pump.
DestroyCalls == {i \in 1..Len(op.calls) : op.calls[i].fn = "on_destroy"}

\* C17: on a destruction notification with the destroy slot set, the destroy
\* callback is invoked exactly once with (handle, state) while the state is
\* allocated, and the state is freed only after that callback has returned,
\* never before or during it.
C17_DestroyCallbackThenFree ==
  (op.name = "pump" /\ op.events[op.window]["destroy"] = "on_destroy") =>
    /\ Cardinality(DestroyCalls) <= 1
    /\ \A i \in DestroyCalls :
         /\ op.calls[i].alive
         /\ op.calls[i].hwnd = op.window
         /\ op.calls[i].data = op.data[op.window]
         /\ op.calls[i].args = <<>>
    /\ \A k \in 1..Len(op.freed) :
         /\ op.freed[k].ptr = op.data[op.window]
         /\ \E i \in DestroyCalls : i <= op.freed[k].ncalls
         /\ \A r \in 1..Len(op.freed[k].running) :
              op.freed[k].running[r].fn # "on_destroy"
    /\ hwnds[op.window].status = "destroyed" =>
         (Cardinality(DestroyCalls) = 1 /\ Len(op.freed) = 1)
    /\ Len(op.freed) = 1 <=> DestroyCalls # {}

\* A close notification with the close slot empty destroys the window: the
\* destroy callback ran once on the allocated state, which is freed now.
C17_Witness ==
  /\ op.name = "pump"
  /\ ~aborted
  /\ op.events[op.window]["destroy"] = "on_destroy"
  /\ op.calls = <<[fn |-> "on_destroy", hwnd |-> op.window,
                   data |-> op.data[op.window], args |-> <<>>,
                   alive |-> TRUE]>>
  /\ op.freed = <<[ptr |-> op.data[op.window], running |-> <<>>,
                   ncalls |-> 1]>>
  /\ heap[op.data[op.window]].status = "freed"

\* The last pump dispatched one touch notification to a window whose touch
\* slot was set, and the backend delivered its points.
TouchDispatched ==
  /\ op.name = "pump"
  /\ Len(op.queue) = 1
  /\ op.queue[1].message = "WM_TOUCH"
  /\ op.queue[1].hwnd = op.window
  /\ op.events[op.window]["touch"] # NULLFN
  /\ op.in.touch

\* The calls the dispatcher made for the points of that notification.
TouchCalls == {i \in 1..Len(op.calls) : Len(op.calls[i].args) = 2}

\* C18: a store in the touch slot made by a callback after the dispatcher
\* looked the slot up does not affect the notification in flight: the
\* handler found at lookup is invoked for every point, and no NULL slot is
\* called.
\* Refuted: the loop of __law_wrapperTouch reads the slot again for every
\* point.
C18_TouchHandlerFixedAtLookup ==
  TouchDispatched =>
    \A i \in TouchCalls :
      op.calls[i].fn = op.events[op.window]["touch"]

\* The number of points the last touch notification reports.
Reported == LOWORD(op.queue[1].wParam)

\* C19: for a touch notification with the touch slot set, the points read
\* from the backend and processed never exceed the 10 of the point buffer,
\* whatever count the notification reports, and the touch callback is
\* invoked once per processed point with the raw coordinates divided by 100.
\* Refuted: the reported count is passed to GetTouchInputInfo and bounds the
\* loop unclamped, so 11 points overrun touch_input[10].
C19_TouchPointsBounded ==
  (TouchDispatched /\ op.events[op.window]["touch"] = "on_event") =>
    /\ ~aborted
    /\ Len(op.calls) = IF Reported < TOUCH_BUFFER THEN Reported
                       ELSE TOUCH_BUFFER
    /\ \A i \in 1..Len(op.calls) :
         op.calls[i] =
           [fn |-> "on_event", hwnd |-> op.window,
            data |-> op.data[op.window],
            args |-> <<TouchInput(op.queue[1].lParam, i - 1).x \div 100,
                       TouchInput(op.queue[1].lParam, i - 1).y \div 100>>,
            alive |-> TRUE]

\* C20: on a file-drop notification for a window whose file_drop slot is
\* set, the file_drop callback is invoked with (handle, state, text of the
\* dropped files) and the notification gets no default native handling.
\* Refuted: __law_wrapperFileDrop tests the slot and returns 0 without
\* calling it.
C20_FileDropInvokesCallback ==
  (/\ op.name = "pump"
   /\ Len(op.queue) = 1
   /\ op.queue[1].message = "WM_DROPFILES"
   /\ op.queue[1].hwnd = op.window
   /\ op.events[op.window]["file_drop"] # NULLFN) =>
    /\ ~aborted
    /\ op.defs = <<>>
    /\ Len(op.calls) = 1
    /\ op.calls[1].fn = op.events[op.window]["file_drop"]
    /\ op.calls[1].hwnd = op.window
    /\ op.calls[1].data = op.data[op.window]
    /\ Len(op.calls[1].args) = 1

\* What the spec expects the pump of the notifications q to call: for each
\* notification whose slot is set, that slot with the normalized parameters.
RECURSIVE ExpectedCalls(_)
ExpectedCalls(q) ==
  IF q = <<>> THEN <<>>
  ELSE LET e == Expected(Head(q))
           f == op.events[Head(q).hwnd][e.slot]
       IN (IF f = NULLFN THEN <<>> ELSE <<[fn |-> f, args |-> e.args]>>)
          \o ExpectedCalls(Tail(q))

\* C21: every call of the button-down or button-up callback carries a button
\* in 1..5 (left 1, right 2, middle 3, XBUTTON1 4, XBUTTON2 5); a down
\* notification calls only the down slot and an up notification only the up
\* slot.
C21_ButtonEnumeration ==
  op.name = "pump" =>
    /\ \A i \in 1..Len(op.calls) :
         /\ Len(op.calls[i].args) = 1
         /\ op.calls[i].args[1] \in 1..5
    /\ [i \in 1..Len(op.calls) |->
          [fn |-> op.calls[i].fn, args |-> op.calls[i].args]]
         = ExpectedCalls(op.queue)
    /\ \A i \in 1..Len(ExpectedCalls(op.queue)) :
         ExpectedCalls(op.queue)[i].fn \in {"on_mouse_down", "on_mouse_up"}

\* The second extra button went down with both slots set.
C21_Witness ==
  /\ op.name = "pump"
  /\ ~aborted
  /\ Len(op.queue) = 1
  /\ op.queue[1].message = "WM_XBUTTONDOWN"
  /\ op.queue[1].wParam \div 65536 = 2
  /\ op.events[op.queue[1].hwnd]["mouse_up"] = "on_mouse_up"
  /\ Len(op.calls) = 1
  /\ op.calls[1].fn = "on_mouse_down"
  /\ op.calls[1].args = <<5>>

\* The handlers stored in minimize and maximize slots.
SysCommandHandlers == {"on_minimize", "on_maximize", "another_maximize"}

\* C22: for a system-command notification the raw parameter is masked with
\* 0xFFF0; subtype minimize invokes only the minimize slot, subtype maximize
\* only the maximize slot, each with default handling instead when the slot
\* is absent; any other subtype invokes no callback and gets default native
\* handling, whatever slots are set.
C22_SysCommandSubtypes ==
  (op.name = "pump" /\ Len(op.queue) = 1
     /\ op.queue[1].message = "WM_SYSCOMMAND") =>
    LET m == op.queue[1]
        subtype == m.wParam - (m.wParam % 16)
        slot == IF subtype = 61472 THEN "minimize"
                ELSE IF subtype = 61488 THEN "maximize" ELSE "none"
        f == IF slot = "none" THEN NULLFN ELSE op.events[m.hwnd][slot]
    IN /\ ~aborted
       /\ IF f = NULLFN
          THEN /\ op.defs # <<>>
               /\ op.defs[1] = m
               /\ \A i \in 1..Len(op.calls) :
                    op.calls[i].fn \notin SysCommandHandlers
               /\ slot = "none" => op.calls = <<>>
          ELSE /\ op.calls # <<>>
               /\ op.calls[1] = [fn |-> f, hwnd |-> m.hwnd,
                                 data |-> op.data[m.hwnd], args |-> <<>>,
                                 alive |-> TRUE]
               /\ \A i \in 2..Len(op.calls) :
                    op.calls[i].fn \notin SysCommandHandlers
               /\ \A j \in 1..Len(op.defs) : op.defs[j] # m

\* A maximize command with low bits set reached the maximize slot and got
\* no default handling, with the minimize slot set too.
C22_Witness ==
  /\ op.name = "pump"
  /\ ~aborted
  /\ Len(op.queue) = 1
  /\ op.queue[1].message = "WM_SYSCOMMAND"
  /\ op.events[op.queue[1].hwnd]["minimize"] = "on_minimize"
  /\ op.events[op.queue[1].hwnd]["maximize"] = "on_maximize"
  /\ op.queue[1].wParam = 61490
  /\ op.calls # <<>>
  /\ op.calls[1].fn = "on_maximize"
  /\ \A j \in 1..Len(op.defs) : op.defs[j] # op.queue[1]

\* C23: the dispatcher never reads an Event Table through the state slot of
\* a window that has no state attached: every notification delivered before
\* the creation notification has completed, or after the allocation of the
\* state failed, the destruction notification included, is handled without
\* dereferencing the absent state.
\* Refuted: when malloc fails, __law_wrapperCreate calls DestroyWindow and
\* __law_wrapperDestroy evaluates EVENT->window.destroy with EVENT = NULL.
C23_NoReadThroughAbsentState ==
  op.name = "law_create" => op.undefined = 0

\* The close callback of the test program, which stores 0 in running, was
\* called on the state p in the step.
ClosedByCallback(p) ==
  /\ op'.name = "pump"
  /\ \E i \in 1..Len(op'.calls) :
       op'.calls[i].fn = "on_close" /\ op'.calls[i].data = p

RECURSIVE IsSubSeq(_, _)
IsSubSeq(a, b) ==
  IF a = <<>> THEN TRUE
  ELSE IF b = <<>> THEN FALSE
  ELSE IF Head(a) = Head(b) THEN IsSubSeq(Tail(a), Tail(b))
  ELSE IsSubSeq(a, Tail(b))

\* The notifications pending ahead of the first quit notification.
Ahead ==
  IF \E i \in 1..Len(queue) : queue[i].message = "WM_QUIT"
  THEN SubSeq(queue, 1, FirstQuit(queue) - 1)
  ELSE queue

\* The notifications pending behind the first quit notification.
Behind ==
  IF \E i \in 1..Len(queue) : queue[i].message = "WM_QUIT"
  THEN SubSeq(queue, FirstQuit(queue) + 1, Len(queue))
  ELSE <<>>

C26_PenQuery ==
  (/\ op.name = "pump"
   /\ Len(op.queue) = 1
   /\ op.queue[1].message = "WM_POINTERUPDATE"
   /\ op.events[op.queue[1].hwnd]["pen"] # NULLFN) =>
    LET m == op.queue[1]
        id == m.wParam % 65536
    IN /\ ~aborted
       /\ op.defs = <<>>
       /\ op.calls =
            IF op.in.pen
            THEN <<[fn |-> op.events[m.hwnd]["pen"], hwnd |-> m.hwnd,
                    data |-> op.data[m.hwnd],
                    args |-> <<id, PenInfo(id).pressure, PenInfo(id).tiltX,
                               PenInfo(id).tiltY>>,
                    alive |-> TRUE]>>
            ELSE <<>>

\* The pen query failed for a pointer update with flags in the high word:
\* no callback and no default handling.
C26_Witness ==
  /\ op.name = "pump"
  /\ ~aborted
  /\ op.queue = <<Msg(op.window, "WM_POINTERUPDATE", 3 * 65536 + 9, 0)>>
  /\ op.events[op.window]["pen"] = "on_event"
  /\ ~op.in.pen
  /\ op.calls = <<>>
  /\ op.defs = <<>>

\* C27: law_error is written only by an operation that fails and is never
\* reset to LAW_ERROR_NONE: a successful law_create and every law_update,
\* dispatch, law_destroy, law_getData and law_exit leave it unchanged, so
\* after a failed law_create followed by a successful one it still reports
\* the earlier failure.
C27_ErrorOnlySetByFailure ==
  [][law_error' # law_error =>
       /\ op'.name = "law_create"
       /\ aborted' \/ op'.result = NULL
       /\ law_error' # LAW_ERROR_NONE]_vars

\* A law_create that returned a window after an earlier one failed.
C27_Witness ==
  /\ op.name = "law_create"
  /\ ~aborted
  /\ op.result # NULL
  /\ law_error # LAW_ERROR_NONE

\* The windows the notifications pending for the pump of window w are
\* addressed to.
Addressed(w) ==
  {queue[i].hwnd : i \in {j \in 1..Len(queue) : Matches(queue[j], w)}}

\* The functions in the Event Table of the state p, before or after the step.
TableOf(p) ==
  {heap[p].data.event[sl] : sl \in Slots}
  \cup {heap'[p].data.event[sl] : sl \in Slots}

HasQuit(q) == \E i \in 1..Len(q) : q[i].message = "WM_QUIT"

\* The part of q ahead of its first quit notification.
AheadOf(q) == IF HasQuit(q) THEN SubSeq(q, 1, FirstQuit(q) - 1) ELSE q

\* C29 as stated: when a pump stops on a quit notification, the quit is
\* removed and the notifications pending behind it are neither dropped nor
\* reordered: the next pump dispatches them in their original order, and the
\* exit hook is not called again for the quit already consumed.
\* Refuted: behind the quit, a close notification with no close slot
\* destroys the window in the next pump and the notifications behind it
\* are discarded.
C29_QuitLeavesAll ==
  \A w \in LiveHandles \cup {NULL} :
    (~aborted /\ HasQuit(queue)) =>
      LET r1 == law_update(World(NoInput), w)
          r2 == law_update(r1, NULL)
          Skipped(m) == ~Matches(m, w)
          Rest == SelectSeq(Ahead, Skipped) \o Behind
          D2 == SubSeq(r2.dispatched, Len(r1.dispatched) + 1,
                       Len(r2.dispatched))
          Hook(q) == IF HasQuit(q) /\ exit_func # NULLFN
                     THEN <<q[FirstQuit(q)].wParam>> ELSE <<>>
      IN ~r2.aborted =>
           /\ r1.queue = Rest
           /\ D2 = AheadOf(Rest)
           /\ r1.exits = Hook(queue)
           /\ r2.exits = r1.exits \o Hook(Rest)

\* C29 amended: the quit is removed, and the notifications pending behind
\* it whose window still exists are neither dropped nor reordered; the next
\* pump dispatches, in their original order, those whose window exists when
\* their turn comes, and the exit hook is not called again for the quit
\* already consumed.
C29_QuitLeavesRest ==
  \A w \in LiveHandles \cup {NULL} :
    (~aborted /\ HasQuit(queue)) =>
      LET r1 == law_update(World(NoInput), w)
          r2 == law_update(r1, NULL)
          Live1(m) == m.message = "WM_QUIT" \/ IsWindow(r1, m.hwnd)
          Live2(m) == m.message = "WM_QUIT" \/ IsWindow(r2, m.hwnd)
          Skipped(m) == ~Matches(m, w) /\ Live1(m)
          Rest == SelectSeq(Ahead, Skipped) \o SelectSeq(Behind, Live1)
          D2 == SubSeq(r2.dispatched, Len(r1.dispatched) + 1,
                       Len(r2.dispatched))
          Hook(q) == IF HasQuit(q) /\ exit_func # NULLFN
                     THEN <<q[FirstQuit(q)].wParam>> ELSE <<>>
      IN ~r2.aborted =>
           /\ r1.queue = Rest
           /\ IsSubSeq(D2, AheadOf(Rest))
           /\ SelectSeq(D2, Live2) = SelectSeq(AheadOf(Rest), Live2)
           /\ r1.exits = Hook(queue)
           /\ r2.exits = r1.exits \o Hook(Rest)

\* A pump stopped on a quit with two notifications pending behind it: the
\* exit hook was called once and the two are pending in their order.
C29_Witness ==
  /\ op.name = "pump"
  /\ ~aborted
  /\ op.queue = <<Msg(NULL, "WM_QUIT", 7, 0),
                  Msg(op.window, "WM_KEYUP", 65, 0),
                  Msg(op.window, "WM_KEYDOWN", 65, 0)>>
  /\ op.exits = <<7>>
  /\ op.calls = <<>>
  /\ queue = Tail(op.queue)

TypeOK ==
  /\ law_error \in 0..3
  /\ class_registered \in {0, 1}
  /\ \A h \in LiveHandles : hwnds[h].userdata \in Ptrs

====
